---- MODULE Spec2Model ----
(***************************************************************************)
(* Model of the JUnit report analyser of various-utils-mcp (junit.ts):     *)
(* getJUnitReportFromXml with its helpers quantileInclusive and the        *)
(* threshold / top-N / quantile-with-floor selections.                     *)
(*                                                                         *)
(* The analyser is a synchronous pure function of the parsed XML tree and  *)
(* the options, so it is modelled as operators that follow the code        *)
(* statement by statement, and the specifications draw a parsed tree and   *)
(* options from bounded sets and apply the function to them.               *)
(*                                                                         *)
(* parser.parse is the fast-xml-parser library.  It is called without the  *)
(* validation argument, so on a text that is not well-formed it either     *)
(* throws or returns the tree of what it could read; the model leaves that *)
(* choice open.  root is the tree parse returns when it returns.           *)
(*                                                                         *)
(* Durations are integers (whole time units); a rational quantile is a     *)
(* pair num/den.  An XML attribute is a record [kind, val] giving the      *)
(* lexical class of its string; a JavaScript number is a record            *)
(* [kind, val] with kind "fin", "nan", "inf", "ninf" or "undefined".       *)
(***************************************************************************)
EXTENDS Integers, Sequences, FiniteSets, TLC

VARIABLES xmlWellFormed, root, opts, pc, report

vars == <<xmlWellFormed, root, opts, pc, report>>

-----------------------------------------------------------------------------
(* Values *)

\* An optional string that is not there (JavaScript undefined).
Undefined == "undefined"

\* XML attribute strings, by lexical class.
AbsentAttr == [kind |-> "absent", val |-> 0]
NumAttr(n) == [kind |-> "numeric", val |-> n]
EmptyAttr == [kind |-> "empty", val |-> 0]
WordAttr == [kind |-> "word", val |-> 0]
InfinityAttr == [kind |-> "infinity", val |-> 0]

\* JavaScript numbers.
UndefinedNum == [kind |-> "undefined", val |-> 0]
NaN == [kind |-> "nan", val |-> 0]
PlusInfinity == [kind |-> "inf", val |-> 0]
MinusInfinity == [kind |-> "ninf", val |-> 0]
Fin(n) == [kind |-> "fin", val |-> n]

\* Number(s) of an attribute string s.
Number(attr) ==
    CASE attr.kind = "numeric" -> Fin(attr.val)
      [] attr.kind = "empty" -> Fin(0)
      [] attr.kind = "infinity" -> PlusInfinity
      [] OTHER -> NaN

\* x !== undefined ? Number(x) : undefined
NumberOrUndefined(attr) ==
    IF attr.kind # "absent" THEN Number(attr) ELSE UndefinedNum

\* typeof x === 'number' && Number.isFinite(x)
IsFiniteNumber(x) == x.kind = "fin"

\* x - y
Minus(x, y) ==
    CASE x.kind = "fin" /\ y.kind = "fin" -> Fin(x.val - y.val)
      [] x.kind = "inf" /\ y.kind \in {"fin", "ninf"} -> PlusInfinity
      [] x.kind = "ninf" /\ y.kind \in {"fin", "inf"} -> MinusInfinity
      [] x.kind = "fin" /\ y.kind = "inf" -> MinusInfinity
      [] x.kind = "fin" /\ y.kind = "ninf" -> PlusInfinity
      [] OTHER -> NaN

\* x > n for a finite n (undefined converts to NaN, and NaN compares false)
GreaterThan(x, n) == (x.kind = "fin" /\ x.val > n) \/ x.kind = "inf"

\* a ?? b on optional strings
Coalesce(a, b) == IF a # Undefined THEN a ELSE b

Max(a, b) == IF a >= b THEN a ELSE b
Min(a, b) == IF a <= b THEN a ELSE b

\* Math.ceil(num * n / den) for den > 0
CeilMul(num, den, n) == -((-(num * n)) \div den)

-----------------------------------------------------------------------------
(* Array helpers *)

\* Array.prototype.slice(-end) where slice(0, end) was meant: the last end elements.
SliceFromEnd(s, end) ==
    LET k == IF end < 0 THEN Max(Len(s) + end, 0) ELSE Min(end, Len(s))
    IN  SubSeq(s, Len(s) - k + 1, Len(s))

\* Array.prototype.slice(0, end)
SliceTo(s, end) ==
    LET k == IF end < 0 THEN Max(Len(s) + end, 0) ELSE Min(end, Len(s))
    IN  SubSeq(s, 1, k)

\* The pairs of positions of s.
Pairs(s) == (1..Len(s)) \X (1..Len(s))

\* Insert position x in front of the elements it ties with: the sort is not
\* stable, later elements come first among equals.
InsertSortedBeforeTies(order, x, after) ==
    LET keep == {j \in 1..Len(order) : <<x, order[j]>> \in after}
        k == IF keep = {} THEN 0 ELSE CHOOSE j \in keep : \A i \in keep : i <= j
    IN  SubSeq(order, 1, k) \o <<x>> \o SubSeq(order, k + 1, Len(order))

\* Insert position x into the sorted positions behind the last one whose
\* element need not come after that of x.
InsertSorted(order, x, after) ==
    LET keep == {j \in 1..Len(order) : <<order[j], x>> \notin after}
        k == IF keep = {} THEN 0 ELSE CHOOSE j \in keep : \A i \in keep : i <= j
    IN  SubSeq(order, 1, k) \o <<x>> \o SubSeq(order, k + 1, Len(order))

\* Array.prototype.sort(comparator), which is stable; after is the set of the
\* pairs of positions <<i, j>> with comparator(s[i], s[j]) > 0.
SortBy(s, after) ==
    LET order[k \in 0..Len(s)] ==
            IF k = 0 THEN <<>> ELSE InsertSorted(order[k - 1], k, after)
    IN  [j \in 1..Len(s) |-> s[order[Len(s)][j]]]

-----------------------------------------------------------------------------
(* Helpers of junit.ts *)

\* The rank rounded down instead of up.
QuantileRankFloor(q, n) == Max(1, (q.num * n) \div q.den)

\* The 1-based nearest rank of quantile q = num/den among n values.
QuantileRank(q, n) == Max(1, CeilMul(q.num, q.den, n))

\* The rank taken among the values in descending order.
quantileInclusiveDescending(values, q) ==
    IF Len(values) = 0 THEN UndefinedNum
    ELSE LET sorted == SortBy(values, {p \in Pairs(values) : values[p[2]] - values[p[1]] > 0})
             rank == QuantileRank(q, Len(sorted))
         IN  IF rank <= Len(sorted) THEN Fin(sorted[rank]) ELSE UndefinedNum

\* quantileInclusive(values, q): the value at the nearest rank of the
\* ascending values; undefined for an empty array and for a rank past the end.
quantileInclusive(values, q) ==
    IF Len(values) = 0 THEN UndefinedNum
    ELSE LET sorted == SortBy(values, {p \in Pairs(values) : values[p[1]] - values[p[2]] > 0})
             rank == QuantileRank(q, Len(sorted))
         IN  IF rank <= Len(sorted) THEN Fin(sorted[rank]) ELSE UndefinedNum

\* The number of occurrences of k in items.
Occurrences(items, k) == Cardinality({i \in 1..Len(items) : items[i] = k})

\* The keys of the Map after the first loop, in insertion order: the truthy
\* items in the order of their first occurrence.
MapKeys(items) ==
    LET keys[k \in 0..Len(items)] ==
            IF k = 0 THEN <<>>
            ELSE IF \/ items[k] = Undefined
                    \/ items[k] = ""
                    \/ \E j \in 1..Len(keys[k - 1]) : keys[k - 1][j] = items[k]
                 THEN keys[k - 1]
                 ELSE Append(keys[k - 1], items[k])
    IN  keys[Len(items)]

\* The scan replacing best on a count that is greater or equal: among the most
\* frequent, the last key wins.
mostFrequentLastWins(items) ==
    LET keys == MapKeys(items)
        scan[j \in 0..Len(keys)] ==
            IF j = 0 THEN [best |-> Undefined, bestN |-> 0]
            ELSE IF Occurrences(items, keys[j]) >= scan[j - 1].bestN
                 THEN [best |-> keys[j], bestN |-> Occurrences(items, keys[j])]
                 ELSE scan[j - 1]
    IN  scan[Len(keys)].best

\* mostFrequent(items): count the truthy items in a Map, then scan its entries
\* in insertion order, replacing best only on a strictly greater count.
mostFrequent(items) ==
    LET keys == MapKeys(items)
        scan[j \in 0..Len(keys)] ==
            IF j = 0 THEN [best |-> Undefined, bestN |-> 0]
            ELSE IF Occurrences(items, keys[j]) > scan[j - 1].bestN
                 THEN [best |-> keys[j], bestN |-> Occurrences(items, keys[j])]
                 ELSE scan[j - 1]
    IN  scan[Len(keys)].best

-----------------------------------------------------------------------------
(* getJUnitReportFromXml: the loop over the suites *)

\* The suites taken from the wrapper alone: suites at the root are not seen.
CollectSuitesWrappedOnly(r) == r.testsuites.testsuite

\* A <testsuites> wrapper without suites taken for a suite itself.
CollectSuitesWrapperAsSuite(r) ==
    IF r.testsuites.present
    THEN IF r.testsuites.testsuite # <<>> THEN r.testsuites.testsuite
         ELSE <<[name |-> Undefined, file |-> Undefined, filename |-> Undefined,
                 time |-> AbsentAttr, testcase |-> <<>>]>>
    ELSE r.testsuite

\* The suites of the parsed tree, whether wrapped in <testsuites> or not.
CollectSuites(r) ==
    IF r.testsuites.present /\ r.testsuites.testsuite # <<>>
    THEN r.testsuites.testsuite
    ELSE r.testsuite

\* The counters and lists before the first suite.
InitialTally ==
    [failedSuites |-> 0, totalTests |-> 0, failedTests |-> 0,
     failed |-> <<>>, allTimedTests |-> <<>>, allSuites |-> <<>>,
     suiteFailed |-> FALSE, suiteFailedCount |-> 0,
     testcaseFiles |-> <<>>, suiteTimeFromCases |-> 0]

\* processNode(node, status) in the test case tc of the suite named suiteName.
processNode(st, node, status, suiteName, tc) ==
    [st EXCEPT !.suiteFailed = TRUE,
               !.suiteFailedCount = @ + 1,
               !.failedTests = @ + 1,
               !.failed = Append(@,
                   [suiteName |-> suiteName,
                    className |-> Coalesce(tc.classname, tc.class),
                    testName |-> Coalesce(tc.name, "(unnamed)"),
                    time |-> NumberOrUndefined(tc.time),
                    status |-> status,
                    message |-> node.message,
                    file |-> Coalesce(tc.file, tc.filename)])]

\* for (const n of nodes) processNode(n, status)
ProcessNodes(st, nodes, status, suiteName, tc) ==
    LET after[k \in 0..Len(nodes)] ==
            IF k = 0 THEN st
            ELSE processNode(after[k - 1], nodes[k], status, suiteName, tc)
    IN  after[Len(nodes)]

\* The annotation loops in the other order: errors, then failures.
ProcessAnnotationsErrorsFirst(st, suiteName, tc) ==
    ProcessNodes(ProcessNodes(st, tc.error, "error", suiteName, tc),
                 tc.failure, "failure", suiteName, tc)

\* The two annotation loops of one test case: failures, then errors.
ProcessAnnotations(st, suiteName, tc) ==
    ProcessNodes(ProcessNodes(st, tc.failure, "failure", suiteName, tc),
                 tc.error, "error", suiteName, tc)

\* The test case enters allTimedTests and the suite's sum when its time is a
\* finite number.
RecordTime(st, suiteName, tc) ==
    LET time == NumberOrUndefined(tc.time)
    IN  IF IsFiniteNumber(time)
        THEN [st EXCEPT !.allTimedTests = Append(@,
                            [suiteName |-> suiteName,
                             className |-> Coalesce(tc.classname, tc.class),
                             testName |-> Coalesce(tc.name, "(unnamed)"),
                             time |-> time,
                             file |-> Coalesce(tc.file, tc.filename)]),
                        !.suiteTimeFromCases = @ + time.val]
        ELSE st

\* if (file) testcaseFiles.push(file)
RecordFile(st, tc) ==
    LET file == Coalesce(tc.file, tc.filename)
    IN  IF file # Undefined /\ file # ""
        THEN [st EXCEPT !.testcaseFiles = Append(@, file)]
        ELSE st

\* One iteration of the loop over the test cases of a suite.
ProcessTestcase(st, suiteName, tc) ==
    ProcessAnnotations(RecordFile(RecordTime(st, suiteName, tc), tc), suiteName, tc)

\* The time attribute of the suite taken as it parses, finite or not.
SuiteTotalTimeNoFallback(suite, suiteTimeFromCases) ==
    LET suiteTimeAttr == NumberOrUndefined(suite.time)
    IN  IF suite.time.kind # "absent" THEN suiteTimeAttr ELSE Fin(suiteTimeFromCases)

\* The resolved duration of a suite: its time attribute when that is a finite
\* number, else the sum over its test cases.
SuiteTotalTime(suite, suiteTimeFromCases) ==
    LET suiteTimeAttr == NumberOrUndefined(suite.time)
    IN  IF IsFiniteNumber(suiteTimeAttr) THEN suiteTimeAttr ELSE Fin(suiteTimeFromCases)

\* A variant that keeps only the suites with a positive duration in allSuites.
FinishSuiteTimedOnly(st, suite) ==
    LET totalTime == SuiteTotalTime(suite, st.suiteTimeFromCases)
        resolvedFile == Coalesce(Coalesce(suite.file, suite.filename),
                                 mostFrequent(st.testcaseFiles))
        counted == [st EXCEPT !.failedSuites = IF st.suiteFailed THEN @ + 1 ELSE @]
    IN  IF IsFiniteNumber(totalTime) /\ totalTime.val > 0
        THEN [counted EXCEPT !.allSuites = Append(@,
                                 [suiteName |-> suite.name,
                                  totalTime |-> totalTime.val,
                                  totalTests |-> Len(suite.testcase),
                                  failedTests |-> st.suiteFailedCount,
                                  file |-> resolvedFile])]
        ELSE counted

\* The end of one suite iteration: failedSuites, and the suite's entry in allSuites.
FinishSuite(st, suite) ==
    LET totalTime == SuiteTotalTime(suite, st.suiteTimeFromCases)
        resolvedFile == Coalesce(Coalesce(suite.file, suite.filename),
                                 mostFrequent(st.testcaseFiles))
        counted == [st EXCEPT !.failedSuites = IF st.suiteFailed THEN @ + 1 ELSE @]
    IN  IF IsFiniteNumber(totalTime)
        THEN [counted EXCEPT !.allSuites = Append(@,
                                 [suiteName |-> suite.name,
                                  totalTime |-> totalTime.val,
                                  totalTests |-> Len(suite.testcase),
                                  failedTests |-> st.suiteFailedCount,
                                  file |-> resolvedFile])]
        ELSE counted

\* One iteration of the loop over the suites.
ProcessSuite(st, suite) ==
    LET begun == [st EXCEPT !.totalTests = @ + Len(suite.testcase),
                            !.suiteFailed = FALSE,
                            !.suiteFailedCount = 0,
                            !.testcaseFiles = <<>>,
                            !.suiteTimeFromCases = 0]
        after[k \in 0..Len(suite.testcase)] ==
            IF k = 0 THEN begun
            ELSE ProcessTestcase(after[k - 1], suite.name, suite.testcase[k])
    IN  FinishSuite(after[Len(suite.testcase)], suite)

\* The counters and lists after the loop over the suites.
Tally(suites) ==
    LET after[k \in 0..Len(suites)] ==
            IF k = 0 THEN InitialTally ELSE ProcessSuite(after[k - 1], suites[k])
    IN  after[Len(suites)]

-----------------------------------------------------------------------------
(* getJUnitReportFromXml: the selections *)

\* The comparison made inclusive: t.time >= slowTestThresholdSec
IsSlowTestInclusive(t, slowTestThresholdSec) ==
    GreaterThan(t.time, slowTestThresholdSec - 1)

\* t.time > slowTestThresholdSec
IsSlowTest(t, slowTestThresholdSec) == GreaterThan(t.time, slowTestThresholdSec)

\* The slow tests sorted by time ascending instead.
SlowTopTestsAscending(allTimedTests, slowTestThresholdSec, topSlowTests) ==
    LET slow == SelectSeq(allTimedTests, LAMBDA t : IsSlowTest(t, slowTestThresholdSec))
        after == {p \in Pairs(slow) :
                     GreaterThan(Minus(slow[p[1]].time, slow[p[2]].time), 0)}
    IN  SliceTo(SortBy(slow, after), topSlowTests)

\* Slow tests: filter by threshold, sort by time descending, take the top N.
SlowTopTests(allTimedTests, slowTestThresholdSec, topSlowTests) ==
    LET slow == SelectSeq(allTimedTests, LAMBDA t : IsSlowTest(t, slowTestThresholdSec))
        after == {p \in Pairs(slow) :
                     GreaterThan(Minus(slow[p[2]].time, slow[p[1]].time), 0)}
    IN  SliceTo(SortBy(slow, after), topSlowTests)

\* sort((a, b) => b.totalTime - a.totalTime)
SortByTotalTimeDescending(suites) ==
    SortBy(suites, {p \in Pairs(suites) :
                       suites[p[2]].totalTime - suites[p[1]].totalTime > 0})

\* The durations of the candidate pool.
SuiteTimes(allSuites) == [i \in 1..Len(allSuites) |-> allSuites[i].totalTime]

\* Slow suites by quantile, before the floor rule: the suites at or above the
\* quantile threshold, by totalTime descending.
QuantileSuites(allSuites, slowSuitesQuantile) ==
    LET suiteThresh == quantileInclusive(SuiteTimes(allSuites), slowSuitesQuantile)
        kept == IF suiteThresh.kind = "undefined" THEN <<>>
                ELSE SelectSeq(allSuites, LAMBDA s : s.totalTime >= suiteThresh.val)
    IN  SortByTotalTimeDescending(kept)

\* The quantile selection without the floor rule.
SlowTopQuantileSuitesNoFloor(allSuites, slowSuitesQuantile, minKeepSuites) ==
    QuantileSuites(allSuites, slowSuitesQuantile)

\* Slow suites: the quantile selection, replaced by the top minKeepSuites of the
\* whole pool when it is shorter than minKeepSuites.
SlowTopQuantileSuites(allSuites, slowSuitesQuantile, minKeepSuites) ==
    LET selected == QuantileSuites(allSuites, slowSuitesQuantile)
    IN  IF Len(selected) < minKeepSuites /\ Len(allSuites) # 0
        THEN SliceTo(SortByTotalTimeDescending(allSuites), minKeepSuites)
        ELSE selected

\* getJUnitReportFromXml on the parsed tree r.
getJUnitReportFromXml(r, o) ==
    LET suites == CollectSuites(r)
        t == Tally(suites)
    IN  [stats |-> [totalSuites |-> Len(suites),
                    failedSuites |-> t.failedSuites,
                    totalTests |-> t.totalTests,
                    failedTests |-> t.failedTests,
                    passedTests |-> t.totalTests - t.failedTests],
         failed |-> t.failed,
         slowTopQuantileTests |->
             SlowTopTests(t.allTimedTests, o.slowTestThresholdSec, o.topSlowTests),
         slowTopQuantileSuites |->
             SlowTopQuantileSuites(t.allSuites, o.slowSuitesQuantile, o.minKeepSuites)]

-----------------------------------------------------------------------------
(* Parsed trees *)

\* The failure or error nodes of a test case: n nodes, told apart by message.
Nodes(status, n) == [i \in 1..n |-> [message |-> <<status, i>>]]

\* A <testcase> element: its time attribute, f failure nodes and e error nodes.
TestCase(shape, position) ==
    [name |-> ToString(position), classname |-> Undefined, class |-> Undefined,
     time |-> shape.time, file |-> Undefined, filename |-> Undefined,
     failure |-> Nodes("failure", shape.f), error |-> Nodes("error", shape.e)]

\* A <testsuite> element.
TestSuite(shape, position) ==
    [name |-> ToString(position), file |-> Undefined, filename |-> Undefined,
     time |-> shape.time,
     testcase |-> [k \in 1..Len(shape.cases) |-> TestCase(shape.cases[k], k)]]

\* The number of elements of a test case: itself and its annotation nodes.
CaseSize(c) == 1 + c.f + c.e

\* The test cases of at most size elements.
CaseShapes(size, caseTimes) ==
    {c \in [time : caseTimes, f : 0..size, e : 0..size] : CaseSize(c) <= size}

\* The sequences of test cases of at most size elements in total.
RECURSIVE CaseSeqs(_, _, _)
CaseSeqs(size, caseTimes, maxNodes) ==
    {<<>>} \cup
    UNION {{<<c>> \o rest : rest \in CaseSeqs(size - CaseSize(c), caseTimes, maxNodes)} :
           c \in {d \in CaseShapes(size, caseTimes) : d.f + d.e <= maxNodes}}

\* The suites of at most size elements: the suite and its test cases.
SuiteShapes(size, suiteTimes, caseTimes, maxNodes) ==
    IF size < 1 THEN {}
    ELSE [time : suiteTimes, cases : CaseSeqs(size - 1, caseTimes, maxNodes)]

RECURSIVE SeqSize(_)
SeqSize(cases) ==
    IF cases = <<>> THEN 0 ELSE CaseSize(Head(cases)) + SeqSize(Tail(cases))

\* The sequences of suites of at most size elements in total.
RECURSIVE SuiteSeqs(_, _, _, _)
SuiteSeqs(size, suiteTimes, caseTimes, maxNodes) ==
    {<<>>} \cup
    UNION {{<<u>> \o rest :
                rest \in SuiteSeqs(size - 1 - SeqSize(u.cases),
                                   suiteTimes, caseTimes, maxNodes)} :
           u \in SuiteShapes(size, suiteTimes, caseTimes, maxNodes)}

\* The <testsuite> elements of a sequence of suite shapes.
Suites(shapes) == [k \in 1..Len(shapes) |-> TestSuite(shapes[k], k)]

\* What the parser returns for <testsuites> around the suites.
Wrapped(suites) ==
    [testsuites |-> [present |-> TRUE, testsuite |-> suites], testsuite |-> <<>>]

\* What the parser returns for suites at the root.
Bare(suites) ==
    [testsuites |-> [present |-> FALSE, testsuite |-> <<>>], testsuite |-> suites]

\* The file and filename attributes of a test case: neither, a file, a filename,
\* or both.
CaseFiles ==
    {[file |-> Undefined, filename |-> Undefined],
     [file |-> "a.test", filename |-> Undefined],
     [file |-> "b.test", filename |-> Undefined],
     [file |-> Undefined, filename |-> "a.test"],
     [file |-> "a.test", filename |-> "b.test"]}

\* The file and filename attributes of a suite.
SuiteFiles == [file : {Undefined, "suite.file"}, filename : {Undefined, "suite.filename"}]

\* The sequences of at most size test cases, by their file attributes.
RECURSIVE FileCaseSeqs(_)
FileCaseSeqs(size) ==
    IF size < 1 THEN {<<>>}
    ELSE {<<>>} \cup
         UNION {{<<c>> \o rest : rest \in FileCaseSeqs(size - 1)} : c \in CaseFiles}

\* The sequences of suites of at most size suites and test cases in total,
\* by their file attributes.
RECURSIVE FileSuiteSeqs(_)
FileSuiteSeqs(size) ==
    IF size < 1 THEN {<<>>}
    ELSE {<<>>} \cup
         UNION {UNION {{<<[attrs |-> a, cases |-> cs]>> \o rest :
                           rest \in FileSuiteSeqs(size - 1 - Len(cs))} :
                       cs \in FileCaseSeqs(size - 1)} :
                a \in SuiteFiles}

\* A <testsuite> element with file attributes on it and on its test cases.
FileSuite(shape, position) ==
    [name |-> ToString(position),
     file |-> shape.attrs.file, filename |-> shape.attrs.filename,
     time |-> AbsentAttr,
     testcase |->
         [k \in 1..Len(shape.cases) |->
             [TestCase([time |-> AbsentAttr, f |-> 0, e |-> 0], k)
                 EXCEPT !.file = shape.cases[k].file,
                        !.filename = shape.cases[k].filename]]]

\* Both shapes of every sequence of suites.
Roots(suiteSeqs) ==
    {Wrapped(Suites(u)) : u \in suiteSeqs} \cup {Bare(Suites(u)) : u \in suiteSeqs}

-----------------------------------------------------------------------------
(* Options *)

DefaultSlowTestThresholdSec == 5
DefaultTopSlowTests == 20
DefaultSlowSuitesQuantile == [num |-> 4, den |-> 5]
DefaultMinKeepSuites == 1

DefaultOptions ==
    [slowTestThresholdSec |-> DefaultSlowTestThresholdSec,
     topSlowTests |-> DefaultTopSlowTests,
     slowSuitesQuantile |-> DefaultSlowSuitesQuantile,
     minKeepSuites |-> DefaultMinKeepSuites]

-----------------------------------------------------------------------------
(* Specifications *)

\* Bounds.
MaxSize == 6
MaxSlowSize == 4
MaxTime == 2
MaxTopN == 2
MaxSuites == 3
MaxSuiteTime == 2
QDen == 5
MaxKeep == 2
MaxDurationSize == 4
MaxFileSize == 4

NoReport == <<>>

\* Reports with failure and error annotations on test cases whose time is a
\* number or not one, analysed with the defaults.
FailureRoots(size) ==
    Roots(SuiteSeqs(size, {AbsentAttr}, {WordAttr, NumAttr(1)}, size))

\* Reports of timed and untimed test cases, analysed with every threshold
\* and every top-N.
SlowRoots(size) ==
    Roots(SuiteSeqs(size, {AbsentAttr},
                    {AbsentAttr, WordAttr, InfinityAttr}
                        \cup {NumAttr(n) : n \in 1..MaxTime}, 0))

SlowOptions ==
    {[DefaultOptions EXCEPT !.slowTestThresholdSec = t, !.topSlowTests = n] :
        t \in 0..MaxTime, n \in 0..MaxTopN}

\* The suite durations 1, 2, 3, 4, 5 of the documented quantile example.
ExampleSuites ==
    [k \in 1..5 |-> [time |-> NumAttr(k), cases |-> <<>>]]

\* Reports of suites with declared durations, analysed with every quantile
\* k/QDen and every minimum.
QuantileSuiteSeqs(size) ==
    {u \in SuiteSeqs(size, {AbsentAttr} \cup {NumAttr(n) : n \in 1..MaxSuiteTime},
                     {AbsentAttr, NumAttr(1)}, 0) : Len(u) <= size}
    \cup {ExampleSuites}

QuantileRoots(size) == {Wrapped(Suites(u)) : u \in QuantileSuiteSeqs(size)}

QuantileOptions ==
    {[DefaultOptions EXCEPT !.slowSuitesQuantile = [num |-> k, den |-> QDen],
                            !.minKeepSuites = m] :
        k \in 0..QDen, m \in 0..MaxKeep}

\* What the parser can return for a text that is not well-formed: nothing
\* (text without any element), or the elements read before the defect (here a
\* suite and a test case whose closing tags are missing).
MalformedRoots ==
    {Bare(<<>>),
     Bare(Suites(<<[time |-> AbsentAttr,
                    cases |-> <<[time |-> AbsentAttr, f |-> 0, e |-> 0]>>]>>))}

\* Reports of suites and test cases whose time attribute is absent, not a
\* number, or a number, analysed with quantile 0, which selects every suite of
\* the pool.
DurationRoots(size) ==
    {Wrapped(Suites(u)) :
        u \in SuiteSeqs(size,
                        {AbsentAttr, WordAttr} \cup {NumAttr(n) : n \in 1..MaxTime},
                        {AbsentAttr, WordAttr} \cup {NumAttr(n) : n \in 1..MaxTime}, 0)}

\* Reports of suites and test cases with file and filename attributes, analysed
\* with quantile 0, which selects every suite of the pool.
FileRoots(size) ==
    {Wrapped([k \in 1..Len(u) |-> FileSuite(u[k], k)]) : u \in FileSuiteSeqs(size)}

DurationOptions ==
    {[DefaultOptions EXCEPT !.slowSuitesQuantile = [num |-> 0, den |-> QDen]]}

InitWith(roots, options) ==
    /\ \/ xmlWellFormed = TRUE /\ root \in roots
       \/ xmlWellFormed = FALSE /\ root \in MalformedRoots
    /\ opts \in options
    /\ pc = "call"
    /\ report = NoReport

Init == InitWith(FailureRoots(MaxSize), {DefaultOptions})

InitSlow == InitWith(SlowRoots(MaxSlowSize), SlowOptions)

InitQuantile == InitWith(QuantileRoots(MaxSuites), QuantileOptions)

InitDuration == InitWith(DurationRoots(MaxDurationSize), DurationOptions)

InitFiles == InitWith(FileRoots(MaxFileSize), DurationOptions)

\* The call getJUnitReportFromXml(xml, opts) returns: parser.parse returned
\* root, and nothing after it throws.
Analyse ==
    /\ pc = "call"
    /\ report' = getJUnitReportFromXml(root, opts)
    /\ pc' = "done"
    /\ UNCHANGED <<xmlWellFormed, root, opts>>

\* parser.parse throws on a text that is not well-formed; nothing catches it,
\* so the call ends with the error and without a report.
ParseError ==
    /\ pc = "call"
    /\ ~xmlWellFormed
    /\ pc' = "error"
    /\ UNCHANGED <<xmlWellFormed, root, opts, report>>

Next == Analyse \/ ParseError

Spec == Init /\ [][Next]_vars

SpecSlow == InitSlow /\ [][Next]_vars

SpecQuantile == InitQuantile /\ [][Next]_vars

SpecDuration == InitDuration /\ [][Next]_vars

SpecFiles == InitFiles /\ [][Next]_vars

TypeOK == pc \in {"call", "done", "error"} /\ xmlWellFormed \in BOOLEAN

-----------------------------------------------------------------------------
(* What the input says, read off the parsed tree *)

\* The suites of the analysed report.
InputSuites == CollectSuites(root)

\* The test cases of suite i that carry at least one failure or error node.
AnnotatedCasesOf(i) ==
    {k \in 1..Len(InputSuites[i].testcase) :
        InputSuites[i].testcase[k].failure # <<>> \/ InputSuites[i].testcase[k].error # <<>>}

\* The number of test cases with at least one annotation.
AnnotatedCaseCount ==
    LET upTo[i \in 0..Len(InputSuites)] ==
            IF i = 0 THEN 0 ELSE upTo[i - 1] + Cardinality(AnnotatedCasesOf(i))
    IN  upTo[Len(InputSuites)]

\* The annotation nodes of the report: <<suite, case, kind rank, node>>, where
\* failures rank before errors.
AnnotationNodes ==
    UNION {UNION {{<<i, k, 1, n>> : n \in 1..Len(InputSuites[i].testcase[k].failure)}
                  \cup {<<i, k, 2, n>> : n \in 1..Len(InputSuites[i].testcase[k].error)} :
                  k \in 1..Len(InputSuites[i].testcase)} :
           i \in 1..Len(InputSuites)}

\* The node an entry of failed was made from.
NodeOf(entry) ==
    CHOOSE a \in AnnotationNodes :
        /\ InputSuites[a[1]].name = entry.suiteName
        /\ InputSuites[a[1]].testcase[a[2]].name = entry.testName
        /\ entry.message = <<IF a[3] = 1 THEN "failure" ELSE "error", a[4]>>

\* a comes before b in document order with failures before errors.
NodeBefore(a, b) ==
    \/ a[1] < b[1]
    \/ a[1] = b[1] /\ a[2] < b[2]
    \/ a[1] = b[1] /\ a[2] = b[2] /\ a[3] < b[3]
    \/ a[1] = b[1] /\ a[2] = b[2] /\ a[3] = b[3] /\ a[4] < b[4]

-----------------------------------------------------------------------------
(* Claims on the failure tallies *)

\* C1: stats.failedTests is the number of test cases carrying at least one
\* failure or error annotation, not the number of annotations.
C1_FailedTestsCountsCases ==
    pc = "done" => report.stats.failedTests = AnnotatedCaseCount

\* C2: passedTests = totalTests - failedTests, and neither is negative.
C2_PassedNonNegative ==
    pc = "done" =>
        /\ report.stats.passedTests = report.stats.totalTests - report.stats.failedTests
        /\ report.stats.passedTests >= 0
        /\ report.stats.failedTests >= 0

\* C3: the failedTests of a suite's entry in slowTopQuantileSuites is the
\* number of that suite's test cases with at least one annotation, and it never
\* exceeds the entry's totalTests.
C3_SuiteFailedCountsCases ==
    pc = "done" =>
        \A j \in 1..Len(report.slowTopQuantileSuites) :
            LET entry == report.slowTopQuantileSuites[j]
            IN  /\ entry.failedTests <= entry.totalTests
                /\ \A i \in 1..Len(InputSuites) :
                       InputSuites[i].name = entry.suiteName =>
                           entry.failedTests = Cardinality(AnnotatedCasesOf(i))

\* C4: failed has exactly one entry per annotation node, in suite order, then
\* test-case order, then failures before errors, each group in node order, and
\* every entry has the status of the kind of node it was made from.
C4_FailedOnePerNodeInOrder ==
    pc = "done" =>
        /\ Len(report.failed) = Cardinality(AnnotationNodes)
        /\ \A j \in 1..Len(report.failed) :
               \E a \in AnnotationNodes :
                   /\ report.failed[j].suiteName = InputSuites[a[1]].name
                   /\ report.failed[j].testName = InputSuites[a[1]].testcase[a[2]].name
                   /\ report.failed[j].status = (IF a[3] = 1 THEN "failure" ELSE "error")
                   /\ report.failed[j].message =
                          (IF a[3] = 1 THEN InputSuites[a[1]].testcase[a[2]].failure[a[4]]
                           ELSE InputSuites[a[1]].testcase[a[2]].error[a[4]]).message
        /\ \A j1, j2 \in 1..Len(report.failed) :
               j1 < j2 => NodeBefore(NodeOf(report.failed[j1]), NodeOf(report.failed[j2]))

\* A test case with two failure nodes and an error node, in the second suite,
\* has been reported.
C4_Witness ==
    /\ pc = "done"
    /\ Len(InputSuites) >= 2
    /\ \E k \in 1..Len(InputSuites[2].testcase) :
           /\ Len(InputSuites[2].testcase[k].failure) >= 2
           /\ Len(InputSuites[2].testcase[k].error) >= 1
    /\ Len(report.failed) >= 3

-----------------------------------------------------------------------------
(* Claims on the slow tests *)

\* The candidate pool of the slow tests.
TimedTests == Tally(InputSuites).allTimedTests

\* The elements of an array.
Elements(s) == {s[j] : j \in 1..Len(s)}

\* The test case an entry of slowTopQuantileTests was made from.
CaseOf(entry) ==
    LET i == CHOOSE i \in 1..Len(InputSuites) : InputSuites[i].name = entry.suiteName
        k == CHOOSE k \in 1..Len(InputSuites[i].testcase) :
                 InputSuites[i].testcase[k].name = entry.testName
    IN  InputSuites[i].testcase[k]

\* The test cases of the report whose time attribute is the number n.
CasesTimed(n) ==
    {<<i, k>> \in (1..Len(InputSuites)) \X (1..MaxSlowSize) :
        /\ k <= Len(InputSuites[i].testcase)
        /\ InputSuites[i].testcase[k].time = NumAttr(n)}

\* The test cases of the report whose duration does not resolve.
CasesUntimed ==
    {<<i, k>> \in (1..Len(InputSuites)) \X (1..MaxSlowSize) :
        /\ k <= Len(InputSuites[i].testcase)
        /\ InputSuites[i].testcase[k].time.kind \in {"absent", "word", "infinity"}}

\* C5: every entry of slowTopQuantileTests has a finite time strictly greater
\* than slowTestThresholdSec, and comes from a test case whose duration resolved.
C5_SlowTestsAboveThreshold ==
    pc = "done" =>
        \A j \in 1..Len(report.slowTopQuantileTests) :
            LET entry == report.slowTopQuantileTests[j]
            IN  /\ entry.time.kind = "fin"
                /\ entry.time.val > opts.slowTestThresholdSec
                /\ CaseOf(entry).time.kind \notin {"absent", "word", "infinity"}
                /\ CaseOf(entry).time.val = entry.time.val

\* A report with a test case at the threshold, one above it and one without a
\* duration has been analysed, and the one above it was selected.
C5_Witness ==
    /\ pc = "done"
    /\ CasesTimed(opts.slowTestThresholdSec) # {}
    /\ CasesUntimed # {}
    /\ Len(report.slowTopQuantileTests) >= 1

\* C6: with the report and topSlowTests fixed, every entry selected at a
\* threshold is also selected at every lower threshold.
C6_LowerThresholdOnlyAdds ==
    pc = "done" =>
        \A t1 \in 0..MaxTime :
            t1 < opts.slowTestThresholdSec =>
                Elements(report.slowTopQuantileTests) \subseteq
                    Elements(SlowTopTests(TimedTests, t1, opts.topSlowTests))

\* The truncation to topSlowTests cut the selection, and a lower threshold has
\* more candidates.
C6_Witness ==
    /\ pc = "done"
    /\ opts.topSlowTests >= 1
    /\ Len(report.slowTopQuantileTests) = opts.topSlowTests
    /\ Len(SelectSeq(TimedTests, LAMBDA t : t.time.val > opts.slowTestThresholdSec))
           > opts.topSlowTests
    /\ \E n \in 1..opts.slowTestThresholdSec : CasesTimed(n) # {}

\* s is a prefix of t.
IsPrefix(s, t) == Len(s) <= Len(t) /\ SubSeq(t, 1, Len(s)) = s

\* C7: slowTopQuantileTests has at most topSlowTests entries, and it is a prefix
\* of the selection made with any larger topSlowTests.
C7_TopNBoundsAndPrefix ==
    pc = "done" =>
        /\ Len(report.slowTopQuantileTests) <= opts.topSlowTests
        /\ \A n2 \in 0..(MaxTopN + 1) :
               opts.topSlowTests <= n2 =>
                   IsPrefix(report.slowTopQuantileTests,
                            SlowTopTests(TimedTests, opts.slowTestThresholdSec, n2))

\* The selection was cut to topSlowTests entries, and a larger topSlowTests
\* gives a longer one.
C7_Witness ==
    /\ pc = "done"
    /\ opts.topSlowTests >= 1
    /\ Len(report.slowTopQuantileTests) = opts.topSlowTests
    /\ Len(SlowTopTests(TimedTests, opts.slowTestThresholdSec, opts.topSlowTests + 1))
           > opts.topSlowTests

-----------------------------------------------------------------------------
(* Claims on the slow suites *)

\* The candidate pool of the slow suites.
SuitePool == Tally(InputSuites).allSuites

\* The position of an entry in the candidate pool.
PoolPosition(entry) == CHOOSE i \in 1..Len(SuitePool) : SuitePool[i] = entry

\* The rank max(1, ceil(q * count)), as the least rank r >= 1 with r >= q * count.
NearestRank(q, count) ==
    CHOOSE r \in 1..Max(1, count) :
        /\ r * q.den >= q.num * count
        /\ r = 1 \/ (r - 1) * q.den < q.num * count

\* v is the value at 1-based rank r of the ascending durations of the pool.
IsValueAtRank(v, r) ==
    /\ \E i \in 1..Len(SuitePool) : SuitePool[i].totalTime = v
    /\ Cardinality({i \in 1..Len(SuitePool) : SuitePool[i].totalTime < v}) < r
    /\ Cardinality({i \in 1..Len(SuitePool) : SuitePool[i].totalTime <= v}) >= r

\* The suites of the pool whose duration is at least v.
SuitesAtLeast(v) == {e \in Elements(SuitePool) : e.totalTime >= v}

\* C8: the quantile threshold is the value at rank max(1, ceil(q * count)) of
\* the ascending durations of the pool, and the selection before the floor rule
\* is exactly the suites at or above it; with an empty pool it is empty.
C8_QuantileNearestRank ==
    pc = "done" =>
        LET q == opts.slowSuitesQuantile
            unfloored == QuantileSuites(SuitePool, q)
        IN  /\ SuitePool = <<>> =>
                   unfloored = <<>> /\ report.slowTopQuantileSuites = <<>>
            /\ SuitePool # <<>> =>
                   \E v \in {e.totalTime : e \in Elements(SuitePool)} :
                       /\ IsValueAtRank(v, NearestRank(q, Len(SuitePool)))
                       /\ Elements(unfloored) = SuitesAtLeast(v)
                       /\ opts.minKeepSuites = 0 =>
                              Elements(report.slowTopQuantileSuites) = SuitesAtLeast(v)

\* The documented example: quantile 0.8 over the durations 1, 2, 3, 4, 5 selected
\* the two suites of durations 5 and 4.
C8_Witness ==
    /\ pc = "done"
    /\ [i \in 1..Len(InputSuites) |-> InputSuites[i].time] =
           <<NumAttr(1), NumAttr(2), NumAttr(3), NumAttr(4), NumAttr(5)>>
    /\ opts.slowSuitesQuantile = DefaultSlowSuitesQuantile
    /\ opts.minKeepSuites = 0
    /\ [j \in 1..Len(report.slowTopQuantileSuites) |->
            report.slowTopQuantileSuites[j].totalTime] = <<5, 4>>

\* a comes before b when the pool is ordered by duration descending, original
\* order on ties.
SlowerFirst(a, b) ==
    \/ a.totalTime > b.totalTime
    \/ a.totalTime = b.totalTime /\ PoolPosition(a) < PoolPosition(b)

\* C9: slowTopQuantileSuites is never shorter than min(minKeepSuites, size of
\* the pool); when the quantile selection has fewer than minKeepSuites entries
\* and the pool is not empty, it is the first minKeepSuites suites of the whole
\* pool by duration descending.
C9_FloorRule ==
    pc = "done" =>
        LET res == report.slowTopQuantileSuites
            m == Min(opts.minKeepSuites, Len(SuitePool))
        IN  /\ Len(res) >= m
            /\ (/\ Len(QuantileSuites(SuitePool, opts.slowSuitesQuantile))
                       < opts.minKeepSuites
                /\ SuitePool # <<>>) =>
                   /\ Len(res) = m
                   /\ Elements(res) \subseteq Elements(SuitePool)
                   /\ \A j1, j2 \in 1..Len(res) : j1 < j2 => SlowerFirst(res[j1], res[j2])
                   /\ \A e \in Elements(SuitePool) \ Elements(res) :
                          \A j \in 1..Len(res) : SlowerFirst(res[j], e)

\* The floor rule replaced a shorter quantile selection, and left suites out.
C9_Witness ==
    /\ pc = "done"
    /\ Len(QuantileSuites(SuitePool, opts.slowSuitesQuantile)) < opts.minKeepSuites
    /\ Len(report.slowTopQuantileSuites) = opts.minKeepSuites
    /\ Len(report.slowTopQuantileSuites) >= 2
    /\ Len(SuitePool) > opts.minKeepSuites

\* C10: raising the quantile shrinks or preserves the selection before the
\* floor rule: the suites selected at a quantile are selected at every lower one.
C10_HigherQuantileShrinks ==
    pc = "done" =>
        \A k1 \in 0..QDen :
            k1 <= opts.slowSuitesQuantile.num =>
                Elements(QuantileSuites(SuitePool, opts.slowSuitesQuantile)) \subseteq
                    Elements(QuantileSuites(SuitePool, [num |-> k1, den |-> QDen]))

\* A lower quantile selects strictly more suites of the analysed report.
C10_Witness ==
    /\ pc = "done"
    /\ opts.minKeepSuites = 0
    /\ Len(report.slowTopQuantileSuites) >= 1
    /\ \E k1 \in 0..QDen :
           /\ k1 < opts.slowSuitesQuantile.num
           /\ Len(QuantileSuites(SuitePool, [num |-> k1, den |-> QDen]))
                  > Len(report.slowTopQuantileSuites)

-----------------------------------------------------------------------------
(* Claims on empty and malformed input *)

\* The parsed tree holds no suite, wrapped or at the root.
NoSuites == root.testsuites.testsuite = <<>> /\ root.testsuite = <<>>

\* C11: a well-formed input without suites gives, without an error, a report
\* whose five counts are 0 and whose three lists are empty, whatever the options.
C11_NoSuitesGivesEmptyReport ==
    (xmlWellFormed /\ NoSuites) =>
        /\ pc # "error"
        /\ pc = "done" =>
               /\ report.stats = [totalSuites |-> 0, failedSuites |-> 0, totalTests |-> 0,
                                  failedTests |-> 0, passedTests |-> 0]
               /\ report.failed = <<>>
               /\ report.slowTopQuantileTests = <<>>
               /\ report.slowTopQuantileSuites = <<>>

\* An empty <testsuites> wrapper has been analysed with minKeepSuites >= 1.
C11_Witness ==
    /\ pc = "done"
    /\ xmlWellFormed
    /\ NoSuites
    /\ root.testsuites.present
    /\ opts.minKeepSuites >= 1

\* C12: a text that is not well-formed makes the call fail; it never returns a
\* report.
C12_MalformedNeverReports ==
    ~xmlWellFormed => pc # "done"

-----------------------------------------------------------------------------
(* Claims on durations *)

\* The time attribute is there, but is no finite number.
IsUnparsableTime(attr) == attr.kind \in {"word", "infinity"}

\* The position of the suite an entry names.
SuiteNamed(suiteName) ==
    CHOOSE i \in 1..Len(InputSuites) : InputSuites[i].name = suiteName

\* The number of test cases of the report.
InputCaseCount ==
    LET upTo[i \in 0..Len(InputSuites)] ==
            IF i = 0 THEN 0 ELSE upTo[i - 1] + Len(InputSuites[i].testcase)
    IN  upTo[Len(InputSuites)]

\* The sum of the durations of the test cases of suite i that declare a number.
SumOfCaseTimes(i) ==
    LET cases == InputSuites[i].testcase
        upTo[k \in 0..Len(cases)] ==
            IF k = 0 THEN 0
            ELSE upTo[k - 1] + (IF cases[k].time.kind = "numeric" THEN cases[k].time.val ELSE 0)
    IN  upTo[Len(cases)]

\* The duration of suite i by the rule: its own time when that is a number,
\* else the sum over its test cases.
ExpectedSuiteTime(i) ==
    IF InputSuites[i].time.kind = "numeric" THEN InputSuites[i].time.val
    ELSE SumOfCaseTimes(i)

\* C13: a test case whose time attribute is present but no finite number is
\* counted in totalTests, is never in slowTopQuantileTests, adds nothing to its
\* suite's duration, and its entries in failed have no time (not NaN).
C13_UnparsableTimeIsAbsent ==
    pc = "done" =>
        /\ report.stats.totalTests = InputCaseCount
        /\ \A j \in 1..Len(report.slowTopQuantileTests) :
               ~IsUnparsableTime(CaseOf(report.slowTopQuantileTests[j]).time)
        /\ \A j \in 1..Len(report.slowTopQuantileSuites) :
               LET entry == report.slowTopQuantileSuites[j]
               IN  entry.totalTime = ExpectedSuiteTime(SuiteNamed(entry.suiteName))
        /\ \A j \in 1..Len(report.failed) :
               IsUnparsableTime(CaseOf(report.failed[j]).time) =>
                   report.failed[j].time = UndefinedNum

\* C14: the totalTime of a suite is its time attribute when that is present and
\* a finite number; otherwise it is the sum of the finite durations of its test
\* cases, 0 when none has one.
C14_SuiteTotalTime ==
    pc = "done" =>
        /\ Len(report.slowTopQuantileSuites) = Len(InputSuites)
        /\ \A j \in 1..Len(report.slowTopQuantileSuites) :
               LET entry == report.slowTopQuantileSuites[j]
               IN  entry.totalTime = ExpectedSuiteTime(SuiteNamed(entry.suiteName))

\* A suite with a non-numeric time and timed and untimed test cases, and a suite
\* without any time, have been reported.
C14_Witness ==
    /\ pc = "done"
    /\ \E i \in 1..Len(InputSuites) :
           /\ InputSuites[i].time = WordAttr
           /\ \E k \in 1..Len(InputSuites[i].testcase) :
                  InputSuites[i].testcase[k].time.kind = "numeric"
           /\ \E k \in 1..Len(InputSuites[i].testcase) :
                  InputSuites[i].testcase[k].time = WordAttr
    /\ \E i \in 1..Len(InputSuites) :
           /\ InputSuites[i].time = AbsentAttr
           /\ InputSuites[i].testcase = <<>>
    /\ \E j \in 1..Len(report.slowTopQuantileSuites) :
           report.slowTopQuantileSuites[j].totalTime = 0

-----------------------------------------------------------------------------
(* Claims on the source file of a suite *)

\* The source path of a test case: its file attribute, else its filename.
CasePath(tc) == IF tc.file # Undefined THEN tc.file ELSE tc.filename

\* The positions of the test cases of suite i that have the path p.
CasesWithPath(i, p) ==
    {k \in 1..Len(InputSuites[i].testcase) : CasePath(InputSuites[i].testcase[k]) = p}

\* The paths of the test cases of suite i.
PathsOf(i) ==
    {CasePath(InputSuites[i].testcase[k]) : k \in 1..Len(InputSuites[i].testcase)}
        \ {Undefined}

\* The first test case of suite i with the path p.
FirstWithPath(i, p) ==
    CHOOSE k \in CasesWithPath(i, p) : \A k2 \in CasesWithPath(i, p) : k <= k2

\* The source file of suite i by the rule.
ExpectedSuiteFile(i) ==
    IF InputSuites[i].file # Undefined THEN InputSuites[i].file
    ELSE IF InputSuites[i].filename # Undefined THEN InputSuites[i].filename
    ELSE IF PathsOf(i) = {} THEN Undefined
    ELSE CHOOSE p \in PathsOf(i) :
             \A q \in PathsOf(i) \ {p} :
                 \/ Cardinality(CasesWithPath(i, p)) > Cardinality(CasesWithPath(i, q))
                 \/ /\ Cardinality(CasesWithPath(i, p)) = Cardinality(CasesWithPath(i, q))
                    /\ FirstWithPath(i, p) < FirstWithPath(i, q)

\* C15: the file of a suite is its file attribute, else its filename attribute,
\* else the path most frequent among its test cases, the first encountered on a
\* tie, else absent.
C15_SuiteFile ==
    pc = "done" =>
        /\ Len(report.slowTopQuantileSuites) = Len(InputSuites)
        /\ \A j \in 1..Len(report.slowTopQuantileSuites) :
               LET entry == report.slowTopQuantileSuites[j]
               IN  entry.file = ExpectedSuiteFile(SuiteNamed(entry.suiteName))

\* A suite without file attributes whose test cases tie between two paths, the
\* first of them being "b.test", has been reported with that path.
C15_Witness ==
    /\ pc = "done"
    /\ \E i \in 1..Len(InputSuites) :
           /\ InputSuites[i].file = Undefined
           /\ InputSuites[i].filename = Undefined
           /\ Len(InputSuites[i].testcase) >= 2
           /\ CasePath(InputSuites[i].testcase[1]) = "b.test"
           /\ Cardinality(CasesWithPath(i, "a.test")) = Cardinality(CasesWithPath(i, "b.test"))
           /\ \E j \in 1..Len(report.slowTopQuantileSuites) :
                  /\ report.slowTopQuantileSuites[j].suiteName = InputSuites[i].name
                  /\ report.slowTopQuantileSuites[j].file = "b.test"

-----------------------------------------------------------------------------
(* Claims on the order of the slow tests *)

\* The position of an entry in the candidate pool, which is in encounter order:
\* suite order, then test-case order.
EncounterPosition(entry) == CHOOSE i \in 1..Len(TimedTests) : TimedTests[i] = entry

\* a comes before b by time descending, encounter order on equal times.
SlowerTestFirst(a, b) ==
    \/ a.time.val > b.time.val
    \/ a.time.val = b.time.val /\ EncounterPosition(a) < EncounterPosition(b)

\* The candidates above the threshold.
SlowCandidates ==
    {t \in Elements(TimedTests) : t.time.val > opts.slowTestThresholdSec}

\* C16: slowTopQuantileTests is ordered by time descending, entries of equal
\* time in encounter order, and it is cut to topSlowTests after the ordering: it
\* holds the first topSlowTests candidates of that order.
C16_SlowTestsOrdered ==
    pc = "done" =>
        LET res == report.slowTopQuantileTests
        IN  /\ Elements(res) \subseteq SlowCandidates
            /\ Len(res) = Min(opts.topSlowTests, Cardinality(SlowCandidates))
            /\ \A j1, j2 \in 1..Len(res) : j1 < j2 => SlowerTestFirst(res[j1], res[j2])
            /\ \A t \in SlowCandidates \ Elements(res) :
                   \A j \in 1..Len(res) : SlowerTestFirst(res[j], t)

\* Three test cases were candidates: the slowest was encountered last and is
\* reported first, and of the two of equal time the cut kept the earlier one.
C16_Witness ==
    /\ pc = "done"
    /\ Len(report.slowTopQuantileTests) = 2
    /\ Cardinality(SlowCandidates) = 3
    /\ report.slowTopQuantileTests[1].time.val > report.slowTopQuantileTests[2].time.val
    /\ EncounterPosition(report.slowTopQuantileTests[1]) = 3
    /\ \E t \in SlowCandidates \ Elements(report.slowTopQuantileTests) :
           /\ t.time = report.slowTopQuantileTests[2].time
           /\ EncounterPosition(t) > EncounterPosition(report.slowTopQuantileTests[2])

-----------------------------------------------------------------------------
(* Claims on the shape of the root *)

\* The same suites in the other shape: at the root when they were wrapped in
\* <testsuites>, wrapped when they were at the root.
OtherShape(r) ==
    IF r.testsuites.present THEN Bare(r.testsuites.testsuite) ELSE Wrapped(r.testsuite)

\* C17: the same sequence of suites gives the same report whether it is wrapped
\* in <testsuites> or stands at the root, a single suite included.
C17_WrappedAndBareAgree ==
    pc = "done" => report = getJUnitReportFromXml(OtherShape(root), opts)

\* Suites standing at the root, one of them with a failed test case, have been
\* analysed.
C17_Witness ==
    /\ pc = "done"
    /\ xmlWellFormed
    /\ ~root.testsuites.present
    /\ Len(root.testsuite) >= 1
    /\ report.stats.totalSuites = Len(root.testsuite)
    /\ Len(report.failed) >= 1

====
